---- MODULE Spec2Model ----
(***************************************************************************)
(* Bilateral normal integration (bilateral_normal_integration_cupy.py).    *)
(*                                                                         *)
(* Arrays.  A 2-D array is a sequence of rows (Len = H), each row a        *)
(* sequence of W cells; positions are 1-based here, so the source's cell   *)
(* (row, col) is <<row + 1, col + 1>>.  A 1-D array is a sequence.  A      *)
(* sparse N x N matrix is held densely as a function                       *)
(* [0..N-1 -> [0..N-1 -> Int]], indexed by the 0-based pixel index.        *)
(*                                                                         *)
(* Numbers.  Depths, normals and coefficients are integers.  Weights and   *)
(* energies are fixed-point numbers in units of 1/Scale.  NaN and Inf are  *)
(* the IEEE values the float arithmetic of the source produces.            *)
(***************************************************************************)
EXTENDS Integers, Sequences, FiniteSets, TLC

\* ------------------------------------------------------------------ bounds
\* Largest number of cells (H * W) of a mask given to the mask-only functions.
MaxCellsOps == 9
\* Largest height and width of such a mask.
MaxSide == 3
\* Largest depth a conjugate-gradient solve returns (depths are 0..MaxZ).
MaxZ == 2
\* Largest number of cells, and largest side, of the mask of a call.
MaxCellsRun == 3
MaxSideRun == 3
\* Largest max_iter of a call.
MaxIter == 2
\* Largest number of cells, and largest side, of the mask of a call that is
\* followed up to the assembled system only.
MaxCellsAsm == 4
MaxSideAsm == 2
\* Largest focal length and principal-point coordinate of such a call.
MaxFocal == 2
MaxCenter == 1

\* ------------------------------------------------------------ array helpers
Height(a) == Len(a)

Width(a) == IF Len(a) = 0 THEN 0 ELSE Len(a[1])

\* a.ravel(): the rows one after the other (row-major order)
RECURSIVE Flatten(_)
Flatten(a) == IF a = <<>> THEN <<>> ELSE Head(a) \o Flatten(Tail(a))

\* arr[mask] for flattened arr and mask: the cells where mask holds, in
\* row-major order
RECURSIVE Pick(_, _)
Pick(vals, flags) ==
  IF vals = <<>> THEN <<>>
  ELSE (IF Head(flags) THEN <<Head(vals)>> ELSE <<>>) \o Pick(Tail(vals), Tail(flags))

\* arr[mask]
Select(arr, mask) == Pick(Flatten(arr), Flatten(mask))

\* cp.sum(mask)
CountTrue(mask) == Len(Select(mask, mask))

\* cp.arange(n)
arange(n) == [t \in 1..n |-> t - 1]

\* flat[flags] = vals on a flat array: the k-th cell where flags holds
\* receives the k-th value, the other cells keep theirs
RECURSIVE PutFlat(_, _, _)
PutFlat(flat, flags, vals) ==
  IF flat = <<>> THEN <<>>
  ELSE IF Head(flags)
       THEN <<Head(vals)>> \o PutFlat(Tail(flat), Tail(flags), Tail(vals))
       ELSE <<Head(flat)>> \o PutFlat(Tail(flat), Tail(flags), vals)

\* arr[mask] = vals, as a new H x W array
Put(arr, mask, vals) ==
  LET flat == PutFlat(Flatten(arr), Flatten(mask), vals)
      w == Width(arr)
  IN  [r \in 1..Height(arr) |-> [c \in 1..w |-> flat[(r - 1) * w + c]]]

\* cp.zeros_like(mask, dtype=int)
zeros_like(mask) == [r \in 1..Height(mask) |-> [c \in 1..Width(mask) |-> 0]]

\* elementwise logical_and / product of boolean arrays
logical_and(a, b) ==
  [r \in 1..Height(a) |-> [c \in 1..Width(a) |-> a[r][c] /\ b[r][c]]]

\* cp.tile(v, 2)
tile2(v) == v \o v

\* [x] * n
RECURSIVE Repeat(_, _)
Repeat(x, n) == IF n = 0 THEN <<>> ELSE <<x>> \o Repeat(x, n - 1)

\* ------------------------------------------------------------ mask shifts
\* pad one zero column on the right, drop the first column
move_left(mask) ==
  [r \in 1..Height(mask) |->
     [c \in 1..Width(mask) |-> IF c + 1 <= Width(mask) THEN mask[r][c + 1] ELSE FALSE]]

\* pad one zero column on the left, drop the last column
move_right(mask) ==
  [r \in 1..Height(mask) |->
     [c \in 1..Width(mask) |-> IF c - 1 >= 1 THEN mask[r][c - 1] ELSE FALSE]]

\* pad one zero row at the bottom, drop the first row
move_top(mask) ==
  [r \in 1..Height(mask) |->
     [c \in 1..Width(mask) |-> IF r + 1 <= Height(mask) THEN mask[r + 1][c] ELSE FALSE]]

\* pad one zero row at the top, drop the last row
move_bottom(mask) ==
  [r \in 1..Height(mask) |->
     [c \in 1..Width(mask) |-> IF r - 1 >= 1 THEN mask[r - 1][c] ELSE FALSE]]

\* pad one zero row at the bottom and one zero column on the right, drop
\* the first row and the first column
move_top_left(mask) ==
  [r \in 1..Height(mask) |->
     [c \in 1..Width(mask) |->
        IF r + 1 <= Height(mask) /\ c + 1 <= Width(mask) THEN mask[r + 1][c + 1] ELSE FALSE]]

\* move_bottom_right with the column shift forgotten
move_bottom_right_noshift(mask) ==
  [r \in 1..Height(mask) |->
     [c \in 1..Width(mask) |-> IF r - 1 >= 1 THEN mask[r - 1][c] ELSE FALSE]]

\* pad one zero row at the top and one zero column on the left, drop the
\* last row and the last column
move_bottom_right(mask) ==
  [r \in 1..Height(mask) |->
     [c \in 1..Width(mask) |->
        IF r - 1 >= 1 /\ c - 1 >= 1 THEN mask[r - 1][c - 1] ELSE FALSE]]

\* ------------------------------------------------------- sparse operators
\* sum of data[t] over the triplets t with row[t] = i and col[t] = j
\* (coo_matrix adds duplicate entries)
RECURSIVE TripletSum(_, _, _, _, _)
TripletSum(data, row, col, i, j) ==
  IF data = <<>> THEN 0
  ELSE (IF Head(row) = i /\ Head(col) = j THEN Head(data) ELSE 0)
       + TripletSum(Tail(data), Tail(row), Tail(col), i, j)

\* coo_matrix with the row and column indices given in the wrong order
coo_matrix_swapped(data, row, col, n) ==
  [i \in 0..(n - 1) |-> [j \in 0..(n - 1) |-> TripletSum(data, col, row, i, j)]]

\* coo_matrix((data, (row, col)), shape=(n, n))
coo_matrix(data, row, col, n) ==
  [i \in 0..(n - 1) |-> [j \in 0..(n - 1) |-> TripletSum(data, row, col, i, j)]]

\* D / step_size (exact for the step sizes of the model, which divide 1)
ScaleDown(D, step_size) ==
  [i \in DOMAIN D |-> [j \in DOMAIN D[i] |-> D[i][j] \div step_size]]

\* pixel_idx = zeros_like(mask); pixel_idx[mask] = arange(sum(mask))
PixelIndex(mask) == Put(zeros_like(mask), mask, arange(CountTrue(mask)))

\* generate_dx_dy: <<D_horizontal_pos, D_horizontal_neg, D_vertical_pos,
\* D_vertical_neg>>, each divided by step_size
generate_dx_dy(mask, step_size) ==
  LET pixel_idx == PixelIndex(mask)
      num_pixel == CountTrue(mask)
      has_left_mask == logical_and(move_right(mask), mask)
      has_right_mask == logical_and(move_left(mask), mask)
      has_bottom_mask == logical_and(move_top(mask), mask)
      has_top_mask == logical_and(move_bottom(mask), mask)
      data_term(m) == Repeat(-1, CountTrue(m)) \o Repeat(1, CountTrue(m))
      D_horizontal_neg ==
        coo_matrix(data_term(has_left_mask),
                   tile2(Select(pixel_idx, has_left_mask)),
                   Select(pixel_idx, move_left(has_left_mask))
                     \o Select(pixel_idx, has_left_mask),
                   num_pixel)
      D_horizontal_pos ==
        coo_matrix(data_term(has_right_mask),
                   tile2(Select(pixel_idx, has_right_mask)),
                   Select(pixel_idx, has_right_mask)
                     \o Select(pixel_idx, move_right(has_right_mask)),
                   num_pixel)
      D_vertical_pos ==
        coo_matrix(data_term(has_top_mask),
                   tile2(Select(pixel_idx, has_top_mask)),
                   Select(pixel_idx, has_top_mask)
                     \o Select(pixel_idx, move_top(has_top_mask)),
                   num_pixel)
      D_vertical_neg ==
        coo_matrix(data_term(has_bottom_mask),
                   tile2(Select(pixel_idx, has_bottom_mask)),
                   Select(pixel_idx, move_bottom(has_bottom_mask))
                     \o Select(pixel_idx, has_bottom_mask),
                   num_pixel)
  IN  << ScaleDown(D_horizontal_pos, step_size), ScaleDown(D_horizontal_neg, step_size),
         ScaleDown(D_vertical_pos, step_size), ScaleDown(D_vertical_neg, step_size) >>

\* construct_facets_from: one row <<4, top-left, bottom-left, bottom-right,
\* top-right>> per facet
construct_facets_from(mask) ==
  LET idx == PixelIndex(mask)
      facet_move_top_mask == move_top(mask)
      facet_move_left_mask == move_left(mask)
      facet_move_top_left_mask == move_top_left(mask)
      facet_top_left_mask ==
        logical_and(logical_and(facet_move_top_mask, facet_move_left_mask),
                    logical_and(facet_move_top_left_mask, mask))
      facet_top_right_mask == move_right(facet_top_left_mask)
      facet_bottom_left_mask == move_bottom(facet_top_left_mask)
      facet_bottom_right_mask == move_bottom_right(facet_top_left_mask)
      tl == Select(idx, facet_top_left_mask)
      bl == Select(idx, facet_bottom_left_mask)
      br == Select(idx, facet_bottom_right_mask)
      tr == Select(idx, facet_top_right_mask)
  IN  [q \in 1..CountTrue(facet_top_left_mask) |-> <<4, tl[q], bl[q], br[q], tr[q]>>]

\* ------------------------------------------------------------- numbers
\* cp.nan, encoded as an integer that no finite value of the model takes
NaN == -1000000000

\* the fixed-point unit of weights and energies: the float 1.0
Scale == 1000

IsNaN(x) == x = NaN

Add(x, y) == IF IsNaN(x) \/ IsNaN(y) THEN NaN ELSE x + y

Sub(x, y) == IF IsNaN(x) \/ IsNaN(y) THEN NaN ELSE x - y

Mul(x, y) == IF IsNaN(x) \/ IsNaN(y) THEN NaN ELSE x * y

Neg(x) == IF IsNaN(x) THEN NaN ELSE -x

HasNaN(v) == \E t \in DOMAIN v : IsNaN(v[t])

RECURSIVE SumSeq(_)
SumSeq(v) == IF v = <<>> THEN 0 ELSE Add(Head(v), SumSeq(Tail(v)))

\* elementwise operations on 1-D arrays
VecSub(u, v) == [t \in DOMAIN u |-> Sub(u[t], v[t])]

VecMul(u, v) == [t \in DOMAIN u |-> Mul(u[t], v[t])]

VecNeg(u) == [t \in DOMAIN u |-> Neg(u[t])]

VecAddScalar(u, x) == [t \in DOMAIN u |-> Add(u[t], x)]

VecSquare(u) == VecMul(u, u)

\* u.T @ v
Dot(u, v) == SumSeq(VecMul(u, v))

\* the stored entries of row i of a sparse matrix times v: a sparse product
\* visits the stored (nonzero) entries only, so a row without any is 0
\* even when v holds NaN
RowDot(M, i, v) ==
  SumSeq([t \in 1..Len(v) |-> IF M[i][t - 1] = 0 THEN 0 ELSE Mul(M[i][t - 1], v[t])])

\* M @ v for an N x N sparse matrix and a length-N array
MatVec(M, v) == [t \in 1..Len(v) |-> RowDot(M, t - 1, v)]

\* diags(d) @ M
DiagMul(d, M) == [i \in DOMAIN M |-> [j \in DOMAIN M[i] |-> d[i + 1] * M[i][j]]]

\* vstack((A1, A2, A3, A4)) @ v, for A = <<A1, A2, A3, A4>>
StackMatVec(A, v) ==
  MatVec(A[1], v) \o MatVec(A[2], v) \o MatVec(A[3], v) \o MatVec(A[4], v)

\* column j of block Ak against the k-th segment of the length-4N array y
ColDot(Ak, j, y, k, n) ==
  SumSeq([t \in 1..n |->
            IF Ak[t - 1][j] = 0 THEN 0 ELSE Mul(Ak[t - 1][j], y[(k - 1) * n + t])])

\* A.T @ y, for A = <<A1, A2, A3, A4>> and y of length 4N
StackTMatVec(A, y, n) ==
  [t \in 1..n |->
     Add(Add(ColDot(A[1], t - 1, y, 1, n), ColDot(A[2], t - 1, y, 2, n)),
         Add(ColDot(A[3], t - 1, y, 3, n), ColDot(A[4], t - 1, y, 4, n)))]

\* e^t in units of 1/Scale, for an integer t <= 0 (e is 2718/1000);
\* underflows to 0 as the float does
RECURSIVE ExpNeg(_)
ExpNeg(t) == IF t = 0 THEN Scale ELSE (ExpNeg(t + 1) * 1000) \div 2718

\* the largest |t| whose e^t is computed: above it 1 / (1 + e^t) is below
\* the fixed-point resolution and the weight is 0 (as it is in floats once
\* cp.exp overflows to inf); below -ExpCap e^t is below the resolution and
\* the weight is 1 (as it is in floats once cp.exp underflows to 0)
ExpCap == 7

\* e^t in units of 1/Scale, for 0 <= t <= ExpCap
RECURSIVE ExpPos(_)
ExpPos(t) == IF t = 0 THEN Scale ELSE (ExpPos(t - 1) * 2718) \div 1000

\* sigmoid with the sign of the exponent lost: 1 / (1 + exp(k * x))
sigmoid_nominus(x, k) ==
  IF IsNaN(x) THEN NaN
  ELSE LET t == k * x
       IN  IF t > ExpCap THEN 0
           ELSE IF t >= 0 THEN (Scale * Scale) \div (Scale + ExpPos(t))
           ELSE IF t >= -ExpCap THEN (Scale * Scale) \div (Scale + ExpNeg(t))
           ELSE Scale

\* sigmoid(x, k) = 1 / (1 + exp(-k * x)), in units of 1/Scale
sigmoid(x, k) ==
  IF IsNaN(x) THEN NaN
  ELSE LET t == -k * x
       IN  IF t > ExpCap THEN 0
           ELSE IF t >= 0 THEN (Scale * Scale) \div (Scale + ExpPos(t))
           ELSE IF t >= -ExpCap THEN (Scale * Scale) \div (Scale + ExpNeg(t))
           ELSE Scale

VecSigmoid(u, k) == [t \in DOMAIN u |-> sigmoid(u[t], k)]

\* 1 - w on weights in units of 1/Scale
OneMinus(w) == [t \in DOMAIN w |-> Sub(Scale, w[t])]

\* ------------------------------------------------- coefficients, assembly
\* normal_map[normal_mask, ch] for the 0-based channel ch
Channel(normal_map, normal_mask, ch) ==
  Select([r \in 1..Height(normal_map) |->
            [c \in 1..Width(normal_map) |-> normal_map[r][c][ch + 1]]],
         normal_mask)

\* yy of cp.meshgrid(range(W), range(H)): the 0-based column of each cell
MeshYY(h, w) == [r \in 1..h |-> [c \in 1..w |-> c - 1]]

\* xx without the cp.flip: the 0-based row of each cell, counted from the top
MeshXXUnflipped(h, w) == [r \in 1..h |-> [c \in 1..w |-> r - 1]]

\* xx of cp.meshgrid(range(W), range(H)) after cp.flip(xx, axis=0): the
\* 0-based row of each cell, counted from the bottom row
MeshXXFlipped(h, w) == [r \in 1..h |-> [c \in 1..w |-> h - r]]

\* K is <<>> for None and the 3 x 3 matrix, as rows, otherwise
IsNone(x) == x = <<>>

\* the diagonal of Nz_u
CoefU(normal_mask, K, nx, ny, nz) ==
  IF IsNone(K) THEN nz
  ELSE LET cx == K[1][3]
           cy == K[2][3]
           fx == K[1][1]
           uu == Select(MeshXXFlipped(Height(normal_mask), Width(normal_mask)), normal_mask)
           vv == Select(MeshYY(Height(normal_mask), Width(normal_mask)), normal_mask)
       IN  [t \in DOMAIN nz |-> (uu[t] - cx) * nx[t] + (vv[t] - cy) * ny[t] + fx * nz[t]]

\* the diagonal of Nz_v
CoefV(normal_mask, K, nx, ny, nz) ==
  IF IsNone(K) THEN nz
  ELSE LET cx == K[1][3]
           cy == K[2][3]
           fy == K[2][2]
           uu == Select(MeshXXFlipped(Height(normal_mask), Width(normal_mask)), normal_mask)
           vv == Select(MeshYY(Height(normal_mask), Width(normal_mask)), normal_mask)
       IN  [t \in DOMAIN nz |-> (uu[t] - cx) * nx[t] + (vv[t] - cy) * ny[t] + fy * nz[t]]

\* the assembly with A2 built from Dup, as A1 is, in place of Dun
AssembleA_A2FromDup(Nz_u, Nz_v, Dops) ==
  << DiagMul(Nz_u, Dops[3]), DiagMul(Nz_u, Dops[3]),
     DiagMul(Nz_v, Dops[1]), DiagMul(Nz_v, Dops[2]) >>

\* Dvp, Dvn, Dup, Dun = generate_dx_dy(...); A1 = Nz_u @ Dup; A2 = Nz_u @ Dun;
\* A3 = Nz_v @ Dvp; A4 = Nz_v @ Dvn.  Dops is the tuple generate_dx_dy returns.
AssembleA(Nz_u, Nz_v, Dops) ==
  LET Dvp == Dops[1]
      Dvn == Dops[2]
      Dup == Dops[3]
      Dun == Dops[4]
  IN  << DiagMul(Nz_u, Dup), DiagMul(Nz_u, Dun), DiagMul(Nz_v, Dvp), DiagMul(Nz_v, Dvn) >>

\* b = cp.concatenate((-nx, -nx, -ny, -ny))
AssembleB(nx, ny) == VecNeg(nx) \o VecNeg(nx) \o VecNeg(ny) \o VecNeg(ny)

\* W = 0.5 * diags(cp.ones_like(b)): the diagonal
InitialW(b) == [t \in DOMAIN b |-> Scale \div 2]

\* (A @ z - b).T @ W @ (A @ z - b), in units of 1/Scale
Energy(A, z, b, W) ==
  LET res == VecSub(StackMatVec(A, z), b)
  IN  Dot(VecMul(res, W), res)

\* ----------------------------------------------------- solver, loop body
\* depth_mask[normal_mask].astype(int)
PriorMaskVec(depth_mask, normal_mask) ==
  LET sel == Select(depth_mask, normal_mask)
  IN  [t \in DOMAIN sel |-> IF sel[t] THEN 1 ELSE 0]

\* cp.log on the depths of the model: log(1) = 0 is the only depth whose
\* logarithm is on the integer grid, and the priors are drawn from it
Log(d) == CASE d = 1 -> 0

\* z_prior = cp.log(depth_map)[normal_mask] if K is not None else
\* depth_map[normal_mask]
PriorDepth(depth_map, normal_mask, K) ==
  LET sel == Select(depth_map, normal_mask)
  IN  IF IsNone(K) THEN sel ELSE [t \in DOMAIN sel |-> Log(sel[t])]

\* depth_diff = M @ (z_prior - z); depth_diff[depth_diff == 0] = cp.nan
DepthDiff(m, z_prior, z) ==
  LET diff == VecMul(m, VecSub(z_prior, z))
  IN  [t \in DOMAIN diff |-> IF diff[t] = 0 THEN NaN ELSE diff[t]]

\* the entries of v that are not NaN
RECURSIVE DropNaN(_)
DropNaN(v) ==
  IF v = <<>> THEN <<>>
  ELSE (IF IsNaN(Head(v)) THEN <<>> ELSE <<Head(v)>>) \o DropNaN(Tail(v))

\* cp.nanmean(v): the mean of the entries that are not NaN, rounded down to
\* the integer grid of the model; NaN when there is none (0 / 0)
nanmean(v) ==
  LET kept == DropNaN(v)
  IN  IF Len(kept) = 0 THEN NaN ELSE SumSeq(kept) \div Len(kept)

\* A.T @ W @ b (+ lambda1 * M @ z_prior), in units of 1/Scale
RightHandSide(A, W, b, n, lambda1, m, z_prior, withPrior) ==
  LET atwb == StackTMatVec(A, VecMul(W, b), n)
  IN  IF withPrior
      THEN [t \in 1..n |-> Add(atwb[t], Mul(lambda1 * Scale, Mul(m[t], z_prior[t])))]
      ELSE atwb

\* the depth vectors a conjugate-gradient solve may return on finite input:
\* every vector of depths in 0..maxZ
DepthVectors(n, maxZ) == [1..n -> 0..maxZ]

\* entry (j, l) of block Ak's share of A.T @ W @ A
NormalEntry(Ak, W, k, n, j, l) ==
  SumSeq([t \in 1..n |->
            IF Ak[t - 1][j] = 0 \/ Ak[t - 1][l] = 0 THEN 0
            ELSE Mul(Mul(Ak[t - 1][j], W[(k - 1) * n + t]), Ak[t - 1][l])])

\* A.T @ W @ A (+ lambda1 * M), in units of 1/Scale
NormalMatrix(A, W, n, lambda1, m, withPrior) ==
  [j \in 0..(n - 1) |-> [l \in 0..(n - 1) |->
     Add(Add(Add(NormalEntry(A[1], W, 1, n, j, l), NormalEntry(A[2], W, 2, n, j, l)),
             Add(NormalEntry(A[3], W, 3, n, j, l), NormalEntry(A[4], W, 4, n, j, l))),
         IF withPrior /\ j = l THEN lambda1 * Scale * m[j + 1] ELSE 0)]]

\* cg(A_mat, b_mat, x0=z): the set of vectors it may return.  A zero
\* right-hand side is returned as the solution; NaN in the matrix, in the
\* right-hand side or in the start vector stays in every iterate; otherwise
\* the result is an approximate solution, any vector of the grid.
cg(A_mat, b_mat, x0, maxZ) ==
  IF ~HasNaN(b_mat) /\ \A t \in DOMAIN b_mat : b_mat[t] = 0 THEN {b_mat}
  ELSE IF HasNaN(b_mat) \/ HasNaN(x0) \/ \E j \in DOMAIN A_mat : HasNaN(A_mat[j])
       THEN {[t \in DOMAIN x0 |-> NaN]}
       ELSE DepthVectors(Len(x0), maxZ)

\* the relative energy with the division guarded: 0 when energy_old is 0
RelativeEnergy_guarded(energy, energy_old) ==
  IF IsNaN(energy) \/ IsNaN(energy_old) THEN <<NaN, NaN>>
  ELSE IF energy_old = 0 THEN <<0, 1>>
  ELSE << IF energy >= energy_old THEN energy - energy_old ELSE energy_old - energy,
          energy_old >>

\* relative_energy = cp.abs(energy - energy_old) / energy_old, as the pair
\* <<numerator, denominator>>: a zero denominator is the float inf (or nan
\* for 0 / 0), and a NaN operand gives <<NaN, NaN>>
RelativeEnergy(energy, energy_old) ==
  IF IsNaN(energy) \/ IsNaN(energy_old) THEN <<NaN, NaN>>
  ELSE << IF energy >= energy_old THEN energy - energy_old ELSE energy_old - energy,
          energy_old >>

\* tol = 1e-4, as 1 / TolInv
TolInv == 10000

\* relative_energy < tol: false for nan and for inf
BelowTol(rel) ==
  /\ ~IsNaN(rel[1])
  /\ rel[2] > 0
  /\ rel[1] <= (rel[2] - 1) \div TolInv

\* --------------------------------------------------------------- outputs
\* depth_map = ones_like(normal_mask) * nan; depth_map[normal_mask] = z;
\* depth_map = exp(depth_map) in the perspective case.  A cell is
\* <<"lin", v>> for the value v and <<"exp", v>> for e^v.
DepthMapOf(normal_mask, z, K) ==
  LET tag == IF IsNone(K) THEN "lin" ELSE "exp"
      full == Put([r \in 1..Height(normal_mask) |-> [c \in 1..Width(normal_mask) |-> NaN]],
                  normal_mask, z)
  IN  [r \in 1..Height(normal_mask) |-> [c \in 1..Width(normal_mask) |-> <<tag, full[r][c]>>]]

\* wu_map = ones_like(normal_mask) * nan; wu_map[normal_mask] = w
WeightMapOf(normal_mask, w) ==
  Put([r \in 1..Height(normal_mask) |-> [c \in 1..Width(normal_mask) |-> NaN]],
      normal_mask, w)

\* the sum of the last channel over all cells (the sign of its mean)
LastChannelSum(normal_map) ==
  SumSeq(Flatten([r \in 1..Height(normal_map) |->
                    [c \in 1..Width(normal_map) |-> normal_map[r][c][3]]]))

\* facets[:, [0, 1, 4, 3, 2]]
FlipFacets(f) == [t \in DOMAIN f |-> <<f[t][1], f[t][2], f[t][5], f[t][4], f[t][3]>>]

\* facets = construct_facets_from(normal_mask), flipped when
\* normal_map[:, :, -1].mean() < 0
FacetsOf(normal_map, normal_mask) ==
  IF LastChannelSum(normal_map) < 0
  THEN FlipFacets(construct_facets_from(normal_mask))
  ELSE construct_facets_from(normal_mask)

\* ------------------------------------------------------------------ state
\* pc is the position in bilateral_normal_integration (or, under SpecOps, in
\* the application of the mask-only functions).  The arguments: normal_map,
\* normal_mask, k, lambda1, depth_map_in (depth_map; <<>> for None),
\* depth_mask, K (<<>> for None), max_iter; step_size, tol, cg_max_iter and
\* cg_tol keep their defaults.  The locals keep the source's names; it is the
\* number of loop bodies completed; bound says whether wu and wv have been
\* assigned; energy_list is held by its length (it) and its last element
\* (energy); exc is the exception that ended the call ("" for none).
VARIABLES pc, normal_map, normal_mask, k, lambda1, depth_map_in, depth_mask, K,
          max_iter, nx, ny, nz, Nz_u, Nz_v, D, A, b, W, z, energy, energy_old,
          relative_energy, m, z_prior, depth_diff, offset, it, wu, wv, bound,
          converged, depth_map, facets, wu_map, wv_map, exc

inputs == <<normal_map, normal_mask, k, lambda1, depth_map_in, depth_mask, K, max_iter>>

coefs == <<nx, ny, nz, Nz_u, Nz_v>>

system == <<A, b, m, z_prior>>

prior == <<depth_diff, offset>>

weights == <<W, wu, wv, bound>>

energies == <<energy, energy_old, relative_energy>>

outputs == <<depth_map, facets, wu_map, wv_map, exc>>

vars == <<pc, inputs, coefs, D, system, prior, weights, z, energies, it, converged, outputs>>

\* every boolean array of h rows and w columns
Masks(h, w) == [1..h -> [1..w -> BOOLEAN]]

Shapes(maxSide, maxCells) ==
  {s \in (1..maxSide) \X (1..maxSide) : s[1] * s[2] <= maxCells}

MasksUpTo(maxSide, maxCells) ==
  UNION {Masks(s[1], s[2]) : s \in Shapes(maxSide, maxCells)}

\* the normal maps over a mask: a normal of vals on each valid cell and
\* <<0, 0, 0>> on the others
NormalMaps(mask, vals) ==
  {nm \in [1..Height(mask) -> [1..Width(mask) -> vals \cup {<<0, 0, 0>>}]] :
     \A r \in 1..Height(mask) : \A c \in 1..Width(mask) :
       (nm[r][c] = <<0, 0, 0>>) <=> ~mask[r][c]}

\* K = [[fx, 0, cx], [0, fy, cy], [0, 0, 1]]
Intrinsics(fx, fy, cx, cy) == << <<fx, 0, cx>>, <<0, fy, cy>>, <<0, 0, 1>> >>

\* the state before the first statement, the arguments given
Start ==
  /\ nx = <<>> /\ ny = <<>> /\ nz = <<>> /\ Nz_u = <<>> /\ Nz_v = <<>>
  /\ D = <<>> /\ A = <<>> /\ b = <<>> /\ m = <<>> /\ z_prior = <<>>
  /\ depth_diff = <<>> /\ offset = 0
  /\ W = <<>> /\ wu = <<>> /\ wv = <<>> /\ bound = FALSE
  /\ z = <<>>
  /\ energy = 0 /\ energy_old = 0 /\ relative_energy = <<0, 1>>
  /\ it = 0 /\ converged = FALSE
  /\ depth_map = <<>> /\ facets = <<>> /\ wu_map = <<>> /\ wv_map = <<>> /\ exc = ""

\* ---------------------------------------- the mask-only functions, applied
InitOps ==
  /\ pc = "ops"
  /\ normal_mask \in MasksUpTo(MaxSide, MaxCellsOps)
  /\ normal_map = <<>> /\ k = 0 /\ lambda1 = 0 /\ depth_map_in = <<>>
  /\ depth_mask = <<>> /\ K = <<>> /\ max_iter = 0
  /\ Start

CallGenerateDxDy ==
  /\ pc = "ops"
  /\ D' = generate_dx_dy(normal_mask, 1)
  /\ pc' = "ops_facets"
  /\ UNCHANGED <<inputs, coefs, system, prior, weights, z, energies, it, converged, outputs>>

CallConstructFacets ==
  /\ pc = "ops_facets"
  /\ facets' = construct_facets_from(normal_mask)
  /\ pc' = "ops_done"
  /\ UNCHANGED <<inputs, coefs, D, system, prior, weights, z, energies, it, converged,
                 depth_map, wu_map, wv_map, exc>>

NextOps == CallGenerateDxDy \/ CallConstructFacets

SpecOps == InitOps /\ [][NextOps]_vars

\* ------------------------------------------ bilateral_normal_integration
StepSize == 1

\* lines 196-219: the camera-coordinate normals and the coefficients
Coefficients ==
  /\ pc = "start"
  /\ nx' = Channel(normal_map, normal_mask, 1)
  /\ ny' = Channel(normal_map, normal_mask, 0)
  /\ nz' = VecNeg(Channel(normal_map, normal_mask, 2))
  /\ Nz_u' = CoefU(normal_mask, K, nx', ny', nz')
  /\ Nz_v' = CoefV(normal_mask, K, nx', ny', nz')
  /\ pc' = "dxdy"
  /\ UNCHANGED <<inputs, D, system, prior, weights, z, energies, it, converged, outputs>>

\* line 222: the partial derivative matrices
Operators ==
  /\ pc = "dxdy"
  /\ D' = generate_dx_dy(normal_mask, StepSize)
  /\ pc' = "assemble"
  /\ UNCHANGED <<inputs, coefs, system, prior, weights, z, energies, it, converged, outputs>>

\* lines 224-244: the stacked system, the initial W, z and energy, the prior
Assemble ==
  /\ pc = "assemble"
  /\ A' = AssembleA(Nz_u, Nz_v, D)
  /\ b' = AssembleB(nx, ny)
  /\ W' = InitialW(b')
  /\ z' = [t \in 1..CountTrue(normal_mask) |-> 0]
  /\ energy' = Energy(A', z', b', W')
  /\ IF IsNone(depth_map_in)
     THEN UNCHANGED <<m, z_prior>>
     ELSE /\ m' = PriorMaskVec(depth_mask, normal_mask)
          /\ z_prior' = PriorDepth(depth_map_in, normal_mask, K)
  /\ pc' = "loop"
  /\ UNCHANGED <<inputs, coefs, D, prior, wu, wv, bound, energy_old, relative_energy,
                 it, converged, outputs>>

\* line 248: the next i of range(max_iter), or the end of the range
LoopHead ==
  /\ pc = "loop"
  /\ pc' = IF it < max_iter
           THEN (IF IsNone(depth_map_in) THEN "solve" ELSE "prior")
           ELSE "post"
  /\ UNCHANGED <<inputs, coefs, D, system, prior, weights, z, energies, it, converged,
                 outputs>>

\* lines 250-253: the shift of z by the mean residual against the prior
PriorFusion ==
  /\ pc = "prior"
  /\ depth_diff' = DepthDiff(m, z_prior, z)
  /\ offset' = nanmean(depth_diff')
  /\ z' = VecAddScalar(z, offset')
  /\ pc' = "solve"
  /\ UNCHANGED <<inputs, coefs, D, system, weights, energies, it, converged, outputs>>

\* lines 254-259: the conjugate-gradient solve of the normal equations
Solve ==
  /\ pc = "solve"
  /\ LET n == Len(z)
         withPrior == ~IsNone(depth_map_in)
         A_mat == NormalMatrix(A, W, n, lambda1, m, withPrior)
         b_mat == RightHandSide(A, W, b, n, lambda1, m, z_prior, withPrior)
     IN  z' \in cg(A_mat, b_mat, z, MaxZ)
  /\ pc' = "reweight"
  /\ UNCHANGED <<inputs, coefs, D, system, prior, weights, energies, it, converged,
                 outputs>>

\* lines 261-263: the new weights
Reweight ==
  /\ pc = "reweight"
  /\ wu' = VecSigmoid(VecSub(VecSquare(MatVec(A[2], z)), VecSquare(MatVec(A[1], z))), k)
  /\ wv' = VecSigmoid(VecSub(VecSquare(MatVec(A[4], z)), VecSquare(MatVec(A[3], z))), k)
  /\ W' = wu' \o OneMinus(wu') \o wv' \o OneMinus(wv')
  /\ bound' = TRUE
  /\ pc' = "energy"
  /\ UNCHANGED <<inputs, coefs, D, system, prior, z, energies, it, converged, outputs>>

\* lines 265-272: the energy, the relative energy and the convergence test
EnergyCheck ==
  /\ pc = "energy"
  /\ energy_old' = energy
  /\ energy' = Energy(A, z, b, W)
  /\ relative_energy' = RelativeEnergy(energy', energy_old')
  /\ it' = it + 1
  /\ converged' = BelowTol(relative_energy')
  /\ pc' = IF converged' THEN "post" ELSE "loop"
  /\ UNCHANGED <<inputs, coefs, D, system, prior, weights, z, outputs>>

\* lines 276-289: the depth map and the facets (the vertices and the pyvista
\* surface built from them are not part of the state)
PostLoop ==
  /\ pc = "post"
  /\ depth_map' = DepthMapOf(normal_mask, z, K)
  /\ facets' = FacetsOf(normal_map, normal_mask)
  /\ pc' = "maps"
  /\ UNCHANGED <<inputs, coefs, D, system, prior, weights, z, energies, it, converged,
                 wu_map, wv_map, exc>>

\* lines 294-304: the weight maps and the return; wv and wu are read, and are
\* unbound when the loop body never ran
WeightMaps ==
  /\ pc = "maps"
  /\ IF bound
     THEN /\ wu_map' = WeightMapOf(normal_mask, wv)
          /\ wv_map' = WeightMapOf(normal_mask, wu)
          /\ pc' = "return"
          /\ exc' = ""
     ELSE /\ pc' = "raise"
          /\ exc' = "UnboundLocalError"
          /\ UNCHANGED <<wu_map, wv_map>>
  /\ UNCHANGED <<inputs, coefs, D, system, prior, weights, z, energies, it, converged,
                 depth_map, facets>>

\* ------------------------------------------------------------ the calls
\* the normals of the calls: (normal_map[..., 0], [..., 1], [..., 2]), so
\* nx = 1st index, ny = 0th, nz = minus the 2nd; <<0, 0, -1>> faces the camera
NormalVals == {<<0, 0, -1>>, <<1, 1, -1>>}

\* the bilateral sharpness k of the calls (2 is the default)
SharpnessVals == {0, 2}

\* the intrinsics of the calls: None and one pinhole camera
IntrinsicsVals == {<<>>, Intrinsics(2, 3, 1, 0)}

\* the depth priors of the calls, as <<depth_map, depth_mask, lambda1>>: none,
\* or the constant depth 1 with a prior mask that selects no cell or every
\* valid cell
PriorVals(mask) ==
  {<< <<>>, <<>>, 0 >>}
  \cup { << [r \in 1..Height(mask) |-> [c \in 1..Width(mask) |-> 1]], dm, l >> :
           dm \in {mask, [r \in 1..Height(mask) |-> [c \in 1..Width(mask) |-> FALSE]]},
           l \in {0, 1} }

Init ==
  /\ pc = "start"
  /\ normal_mask \in MasksUpTo(MaxSideRun, MaxCellsRun)
  /\ normal_map \in NormalMaps(normal_mask, NormalVals)
  /\ k \in SharpnessVals
  /\ K \in IntrinsicsVals
  /\ \E p \in PriorVals(normal_mask) :
       /\ depth_map_in = p[1]
       /\ depth_mask = p[2]
       /\ lambda1 = p[3]
  /\ max_iter \in 0..MaxIter
  /\ Start

Next ==
  \/ Coefficients
  \/ Operators
  \/ Assemble
  \/ LoopHead
  \/ PriorFusion
  \/ Solve
  \/ Reweight
  \/ EnergyCheck
  \/ PostLoop
  \/ WeightMaps

Spec == Init /\ [][Next]_vars

\* ------------------------------- the calls, up to the assembled system
\* the normals of these calls
NormalValsAsm == {<<0, 0, -1>>, <<1, 2, -1>>, <<-1, 0, 1>>}

\* the intrinsics of these calls: None, and the pinhole cameras with focal
\* lengths in 1..MaxFocal and principal point in (0..MaxCenter)^2
IntrinsicsValsAsm ==
  {<<>>} \cup {Intrinsics(fx, fy, cx, cy) :
                 fx \in 1..MaxFocal, fy \in 1..MaxFocal,
                 cx \in 0..MaxCenter, cy \in 0..MaxCenter}

InitAsm ==
  /\ pc = "start"
  /\ normal_mask \in MasksUpTo(MaxSideAsm, MaxCellsAsm)
  /\ normal_map \in NormalMaps(normal_mask, NormalValsAsm)
  /\ k = 2
  /\ K \in IntrinsicsValsAsm
  /\ depth_map_in = <<>> /\ depth_mask = <<>> /\ lambda1 = 0
  /\ max_iter = 0
  /\ Start

NextAsm ==
  \/ Coefficients
  \/ Operators
  \/ Assemble

SpecAsm == InitAsm /\ [][NextAsm]_vars

\* ------------------------------------------------ claims on the operators
Cells(mask) == (1..Height(mask)) \X (1..Width(mask))

\* cell <<r, c>> lies in the grid and is valid
Valid(mask, r, c) ==
  /\ r \in 1..Height(mask)
  /\ c \in 1..Width(mask)
  /\ mask[r][c]

\* the row-major pixel index of a valid cell: the number of valid cells
\* that come before it in row-major order
RowMajorIndex(mask, r, c) ==
  Cardinality({q \in Cells(mask) :
                 mask[q[1]][q[2]] /\ (q[1] < r \/ (q[1] = r /\ q[2] < c))})

NumValid(mask) == Cardinality({q \in Cells(mask) : mask[q[1]][q[2]]})

\* the row of pixel p that differences p against the neighbour cell
\* <<nr, nc>>: selfCoef at p and -selfCoef at the neighbour when the
\* neighbour is valid, all zero otherwise
EdgeRow(mask, p, nr, nc, selfCoef) ==
  [j \in 0..(NumValid(mask) - 1) |->
     IF ~Valid(mask, nr, nc) THEN 0
     ELSE IF j = p THEN selfCoef
     ELSE IF j = RowMajorIndex(mask, nr, nc) THEN -selfCoef
     ELSE 0]

\* C1: with step_size = 1, for every mask and every valid pixel p at
\* (row, col): row p of the horizontal positive operator is -1 at p, +1 at
\* (row, col+1); of the horizontal negative operator -1 at (row, col-1), +1
\* at p; of the vertical positive operator -1 at p, +1 at (row-1, col); of
\* the vertical negative operator -1 at (row+1, col), +1 at p; each only
\* when that neighbour is valid, and the row is all zero otherwise.
C1_OperatorStructure ==
  pc \in {"ops_facets", "ops_done"} =>
    /\ \A d \in 1..4 : DOMAIN D[d] = 0..(NumValid(normal_mask) - 1)
    /\ \A q \in Cells(normal_mask) :
         normal_mask[q[1]][q[2]] =>
           LET r == q[1]
               c == q[2]
               p == RowMajorIndex(normal_mask, r, c)
           IN  /\ D[1][p] = EdgeRow(normal_mask, p, r, c + 1, -1)
               /\ D[2][p] = EdgeRow(normal_mask, p, r, c - 1, 1)
               /\ D[3][p] = EdgeRow(normal_mask, p, r - 1, c, -1)
               /\ D[4][p] = EdgeRow(normal_mask, p, r + 1, c, 1)

\* a mask in which one pixel has valid right and upper neighbours and no
\* left and lower ones, and another pixel is isolated; the operators built
C1_Witness ==
  /\ pc = "ops_facets"
  /\ \E q \in Cells(normal_mask) :
       /\ normal_mask[q[1]][q[2]]
       /\ Valid(normal_mask, q[1], q[2] + 1)
       /\ Valid(normal_mask, q[1] - 1, q[2])
       /\ ~Valid(normal_mask, q[1], q[2] - 1)
       /\ ~Valid(normal_mask, q[1] + 1, q[2])
       /\ D[1][RowMajorIndex(normal_mask, q[1], q[2])]
            [RowMajorIndex(normal_mask, q[1], q[2] + 1)] = 1
       /\ D[3][RowMajorIndex(normal_mask, q[1], q[2])]
            [RowMajorIndex(normal_mask, q[1] - 1, q[2])] = 1
  /\ \E q \in Cells(normal_mask) :
       /\ normal_mask[q[1]][q[2]]
       /\ ~Valid(normal_mask, q[1], q[2] + 1)
       /\ ~Valid(normal_mask, q[1], q[2] - 1)
       /\ ~Valid(normal_mask, q[1] - 1, q[2])
       /\ ~Valid(normal_mask, q[1] + 1, q[2])

\* the top-left cells of the 2x2 blocks whose four cells are all valid
FullBlocks(mask) ==
  {q \in Cells(mask) :
     /\ Valid(mask, q[1], q[2])
     /\ Valid(mask, q[1], q[2] + 1)
     /\ Valid(mask, q[1] + 1, q[2])
     /\ Valid(mask, q[1] + 1, q[2] + 1)}

\* the quad of the block with top-left cell q: top-left, bottom-left,
\* bottom-right, top-right
BlockQuad(mask, q) ==
  << 4,
     RowMajorIndex(mask, q[1], q[2]),
     RowMajorIndex(mask, q[1] + 1, q[2]),
     RowMajorIndex(mask, q[1] + 1, q[2] + 1),
     RowMajorIndex(mask, q[1], q[2] + 1) >>

\* C2: construct_facets_from emits exactly one quad per 2x2 block of valid
\* cells and none otherwise; its vertices are the pixel indices of that
\* block's cells in the order top-left, bottom-left, bottom-right,
\* top-right; every vertex index is in [0, N); a fully valid H x W mask
\* yields (H-1)*(W-1) quads.
C2_FacetsPerBlock ==
  pc = "ops_done" =>
    /\ {facets[t] : t \in DOMAIN facets}
         = {BlockQuad(normal_mask, q) : q \in FullBlocks(normal_mask)}
    /\ Len(facets) = Cardinality(FullBlocks(normal_mask))
    /\ \A t \in DOMAIN facets : \A v \in 2..5 :
         facets[t][v] \in 0..(NumValid(normal_mask) - 1)
    /\ (\A q \in Cells(normal_mask) : normal_mask[q[1]][q[2]]) =>
         Len(facets) = (Height(normal_mask) - 1) * (Width(normal_mask) - 1)

\* a mask with holes that still holds two full blocks, and the quads built
C2_Witness ==
  /\ pc = "ops_done"
  /\ Len(facets) = 2
  /\ \E q \in Cells(normal_mask) : ~normal_mask[q[1]][q[2]]
  /\ \E t \in DOMAIN facets : facets[t][2] > 0

\* ------------------------------------------------- claims on the calls
N == NumValid(normal_mask)

\* the positions at which W, z and the system are assigned
Assembled == pc \in {"loop", "prior", "solve", "reweight", "energy", "post", "maps",
                     "return", "raise"}

\* a weight in [0, 1]
UnitWeight(w) == ~IsNaN(w) /\ 0 <= w /\ w <= Scale

C4_LoopEndsAndReturns ==
  N > 0 =>
    /\ pc # "raise"
    /\ pc \in {"post", "maps", "return"} => (converged \/ it = max_iter)
    /\ pc \in {"maps", "return"} => depth_map = DepthMapOf(normal_mask, z, K)

\* C5: with no valid pixel the call fails with InvalidInput before any
\* operator construction, system assembly or solver iteration.
C5_EmptyMaskRejected ==
  (N = 0 /\ pc \notin {"ops", "ops_facets", "ops_done"}) =>
    \/ pc = "start"
    \/ pc = "raise" /\ exc = "InvalidInput" /\ D = <<>> /\ A = <<>> /\ it = 0

\* C6: in an iteration with a prior in which no prior pixel has a defined
\* residual, the prior fusion uses offset 0: z is not shifted and holds no NaN.
C6_EmptyPriorOffsetZero ==
  (pc = "solve" /\ ~IsNone(depth_map_in) /\ N > 0
     /\ \A t \in DOMAIN depth_diff : IsNaN(depth_diff[t])) =>
    /\ offset = 0
    /\ ~HasNaN(z)

\* the forward and backward estimates of pixel i on the blocks Af, Ab
Estimate(Ak, i) == RowDot(Ak, i - 1, z)

ScaledEdgeRow(coef, mask, p, nr, nc, selfCoef) ==
  [j \in 0..(NumValid(mask) - 1) |-> coef[p + 1] * EdgeRow(mask, p, nr, nc, selfCoef)[j]]

\* C8 as stated: A1 = diag(Nu) * horizontal positive operator, A2 = diag(Nu) *
\* horizontal negative, A3 = diag(Nv) * vertical positive, A4 = diag(Nv) *
\* vertical negative, and b = concat(-nx, -nx, -ny, -ny).
C8_BlocksHorizontalFirst ==
  Assembled =>
    /\ A[1] = DiagMul(Nz_u, D[1])
    /\ A[2] = DiagMul(Nz_u, D[2])
    /\ A[3] = DiagMul(Nz_v, D[3])
    /\ A[4] = DiagMul(Nz_v, D[4])
    /\ b = VecNeg(nx) \o VecNeg(nx) \o VecNeg(ny) \o VecNeg(ny)

\* C8 amended: A1 = diag(Nu) * vertical positive operator (row p: -1 at p, +1
\* at the pixel above), A2 = diag(Nu) * vertical negative (-1 at the pixel
\* below, +1 at p), A3 = diag(Nv) * horizontal positive (-1 at p, +1 at the
\* right pixel), A4 = diag(Nv) * horizontal negative (-1 at the left pixel, +1
\* at p), and b = concat(-nx, -nx, -ny, -ny).
C8_BlocksVerticalFirst ==
  Assembled =>
    /\ \A d \in 1..4 : DOMAIN A[d] = 0..(N - 1)
    /\ \A q \in Cells(normal_mask) :
         normal_mask[q[1]][q[2]] =>
           LET r == q[1]
               c == q[2]
               p == RowMajorIndex(normal_mask, r, c)
           IN  /\ A[1][p] = ScaledEdgeRow(Nz_u, normal_mask, p, r - 1, c, -1)
               /\ A[2][p] = ScaledEdgeRow(Nz_u, normal_mask, p, r + 1, c, 1)
               /\ A[3][p] = ScaledEdgeRow(Nz_v, normal_mask, p, r, c + 1, -1)
               /\ A[4][p] = ScaledEdgeRow(Nz_v, normal_mask, p, r, c - 1, 1)
               /\ b[p + 1] = -nx[p + 1]
               /\ b[N + p + 1] = -nx[p + 1]
               /\ b[2 * N + p + 1] = -ny[p + 1]
               /\ b[3 * N + p + 1] = -ny[p + 1]
    /\ Len(b) = 4 * N

\* the system assembled over a fully valid 2 x 2 mask under a camera whose
\* two coefficients differ and are nonzero at the top-left pixel
C8_Witness ==
  /\ pc = "loop"
  /\ N = 4
  /\ Height(normal_mask) = 2
  /\ Nz_u[1] # Nz_v[1] /\ Nz_u[1] # 0 /\ Nz_v[1] # 0
  /\ A[2][0][2] = -Nz_u[1]
  /\ A[3][0][1] = Nz_v[1]

\* C9 as stated: with intrinsics, at the valid pixel at (row, col),
\* Nu = u*nx + v*ny + fx*nz and Nv = u*nx + v*ny + fy*nz with u = col - cx and
\* v = row - cy; without, Nu = Nv = nz.
C9_OffsetsColumnRow ==
  pc \in {"dxdy", "assemble", "loop"} =>
    \A q \in Cells(normal_mask) :
      normal_mask[q[1]][q[2]] =>
        LET t == RowMajorIndex(normal_mask, q[1], q[2]) + 1
            row == q[1] - 1
            col == q[2] - 1
        IN  IF IsNone(K) THEN Nz_u[t] = nz[t] /\ Nz_v[t] = nz[t]
            ELSE LET u == col - K[1][3]
                     v == row - K[2][3]
                 IN  /\ Nz_u[t] = u * nx[t] + v * ny[t] + K[1][1] * nz[t]
                     /\ Nz_v[t] = u * nx[t] + v * ny[t] + K[2][2] * nz[t]

\* C9 amended: with intrinsics, at the valid pixel at (row, col) of an H-row
\* mask, Nu = u*nx + v*ny + fx*nz and Nv = u*nx + v*ny + fy*nz with
\* u = (H - 1 - row) - cx and v = col - cy; without, Nu = Nv = nz.
C9_OffsetsFlippedRowColumn ==
  pc \in {"dxdy", "assemble", "loop"} =>
    /\ Len(Nz_u) = N /\ Len(Nz_v) = N
    /\ \A q \in Cells(normal_mask) :
         normal_mask[q[1]][q[2]] =>
           LET t == RowMajorIndex(normal_mask, q[1], q[2]) + 1
               row == q[1] - 1
               col == q[2] - 1
           IN  IF IsNone(K) THEN Nz_u[t] = nz[t] /\ Nz_v[t] = nz[t]
               ELSE LET u == (Height(normal_mask) - 1 - row) - K[1][3]
                        v == col - K[2][3]
                    IN  /\ Nz_u[t] = u * nx[t] + v * ny[t] + K[1][1] * nz[t]
                        /\ Nz_v[t] = u * nx[t] + v * ny[t] + K[2][2] * nz[t]

\* the coefficients computed under a camera with fx # fy over a fully valid
\* 2 x 2 mask whose top-left normal has nx # 0 and ny # 0
C9_Witness ==
  /\ pc = "dxdy"
  /\ ~IsNone(K)
  /\ K[1][1] # K[2][2]
  /\ N = 4 /\ Height(normal_mask) = 2
  /\ nx[1] # 0 /\ ny[1] # 0 /\ nx[1] # ny[1]
  /\ Nz_u[1] # Nz_v[1]

\* the orthographic call without prior on normals that all face the camera
FlatCall ==
  /\ IsNone(K)
  /\ IsNone(depth_map_in)
  /\ \A q \in Cells(normal_mask) :
       normal_mask[q[1]][q[2]] => normal_map[q[1]][q[2]] = <<0, 0, -1>>

\* C10: an outer iteration entered with the previous energy equal to 0 never
\* ends the loop as converged (its relative energy is a division by zero,
\* never below tol); on the flat orthographic input without prior z stays 0
\* and the energy 0, the loop never converges and runs all max_iter times.
C10_ZeroEnergyNeverConverges ==
  /\ (it > 0 /\ energy_old = 0) =>
       /\ ~converged
       /\ relative_energy[2] = 0 \/ IsNaN(relative_energy[1])
  /\ FlatCall =>
       /\ ~converged
       /\ Assembled => (energy = 0 /\ \A t \in DOMAIN z : z[t] = 0)
       /\ pc \in {"post", "maps", "return", "raise"} => it = max_iter

\* the flat call over two or more pixels, returned after two or more
\* iterations that each divided 0 by 0
C10_Witness ==
  /\ FlatCall
  /\ N >= 2
  /\ pc = "return"
  /\ max_iter >= 2
  /\ it = max_iter
  /\ energy_old = 0
  /\ relative_energy = <<0, 0>>

====
